---- MODULE Spec2Model ----
(***************************************************************************)
(* Authentication, session and query pipeline of the Banking RM agent:     *)
(* PostgreSQLAuthenticationAgent (agents/postgresql_auth_agent.py) as it   *)
(* is driven by BankingRMAgent (core/banking_rm_agent.py), and the         *)
(* in-memory AuthenticationAgent (agents/authentication_agent.py) beside   *)
(* it.                                                                     *)
(*                                                                         *)
(* Time is the wall clock in whole seconds.  Python's None is the empty    *)
(* sequence and a present value x is <<x>>.                                *)
(***************************************************************************)
EXTENDS Integers, Sequences, FiniteSets, TLC

\* ------------------------------------------------------------------ bounds
MaxTicks == 1
MaxTokens == 1
MaxHistory == 1

\* ------------------------------------------------------- program constants
LOCK_THRESHOLD == 3
LOCK_MINUTES == 15
TOKEN_HOURS == 24

LockSeconds == LOCK_MINUTES * 60
TokenSeconds == TOKEN_HOURS * 3600

None == <<>>
Some(x) == <<x>>

CustomerTier == {"regular", "premium", "hni", "vip"}
AccountStatus == {"active", "suspended", "frozen", "closed"}

valid_intents ==
  {"REMITTANCE_STATUS", "ACCOUNT_BALANCE", "TRANSACTION_HISTORY",
   "INVESTMENT_QUERY", "LOAN_INQUIRY", "CARD_SERVICES",
   "GENERAL_BANKING", "OUT_OF_SCOPE"}

SUPPORTED_INTENTS ==
  {"REMITTANCE_STATUS", "ACCOUNT_BALANCE", "TRANSACTION_HISTORY", "GENERAL_BANKING"}

\* The first sentence of Config.APOLOGY_MESSAGE stands for the whole text.
APOLOGY_MESSAGE == "I apologize, but I'm unable to assist with this particular query at the moment."

\* ------------------------------------------------------------------ inputs
\* The rows of the customers table the model works with (three of the demo
\* customers), and one identifier that has no row.
InitialCustomers ==
  [c \in {"CUST001", "CUST003", "CUST005"} |->
     [tier           |-> IF c = "CUST001" THEN "hni" ELSE "regular",
      account_status |-> IF c = "CUST005" THEN "suspended" ELSE "active",
      auth_token     |-> "password123",
      last_login     |-> None,
      failed_attempts |-> 0,
      locked_until   |-> None]]

CallerIds == {"CUST001", "CUST003", "CUST005", "CUST999"}
Credentials == {"password123", "wrongpassword"}
\* The clock moves by a second, by the lockout duration, or by a second more
\* than a token's lifetime.
TickSteps == {1, LockSeconds, TokenSeconds + 1}

\* now                   the wall clock
\* customers             the customers table, by customer_id
\* session_tokens        PostgreSQLAuthenticationAgent.session_tokens
\* conversation_history  BankingRMAgent.conversation_history
\* issued                the tokens callers were handed, with the customer_id
\*                       each was handed out for
\* revoked               the tokens a logout has removed
\* last                  the last call: its name, its arguments, and for a
\*                       call that authenticates the row it read
\* result                what the last call returned
\* calls                 the collaborators the last call invoked, in order
\* ticks                 how often the clock has moved
\* pending               for each connection, the authenticate call that has
\*                       read its row and not yet written: its arguments and
\*                       the row it read
\* request               the process_customer_query call in progress, if any:
\*                       its arguments and how many of its collaborators
\*                       have returned
\* in_memory             the AuthenticationAgent driven beside the PostgreSQL
\*                       one: its customer_database, its session_tokens and
\*                       what its last call returned
VARIABLES now, customers, session_tokens, conversation_history,
          issued, revoked, last, result, calls, ticks, pending, request,
          in_memory

vars == <<now, customers, session_tokens, conversation_history,
          issued, revoked, last, result, calls, ticks, pending, request,
          in_memory>>

\* ------------------------------------------------- PostgreSQLAuthenticationAgent
AuthResult(ok, profile, err, tok) ==
  [is_authenticated |-> ok, customer_profile |-> profile,
   error_message |-> err, session_token |-> tok]

CustomerProfile(cid, row) ==
  [customer_id |-> cid, tier |-> row.tier, account_status |-> row.account_status,
   last_login |-> row.last_login, failed_attempts |-> row.failed_attempts,
   locked_until |-> row.locked_until]

verify_auth_token(stored_token, provided_token) == stored_token = provided_token

\* jwt.encode of {customer_id, exp, iat} under a fixed key with HS256 is a
\* deterministic, injective function of the payload; exp and iat are whole
\* seconds.
generate_session_token(customer_id, t) ==
  [customer_id |-> customer_id, exp |-> t + TokenSeconds, iat |-> t]

get_customer_profile(db, customer_id) ==
  IF customer_id \in DOMAIN db
  THEN Some(CustomerProfile(customer_id, db[customer_id]))
  ELSE None

\* A lock check that never finds a lock.
IsLocked_Never(row, t) == FALSE

IsLocked(row, t) == row.locked_until # None /\ t < row.locked_until[1]

\* A success path that leaves the failed-attempt fields as they were.
AuthSuccess_KeepsLock(db, st, customer_id, t) ==
  LET session_token == generate_session_token(customer_id, t)
      profile == [customer_id |-> customer_id,
                  tier |-> db[customer_id].tier,
                  account_status |-> db[customer_id].account_status,
                  last_login |-> Some(t),
                  failed_attempts |-> db[customer_id].failed_attempts,
                  locked_until |-> db[customer_id].locked_until]
  IN [db  |-> [db EXCEPT ![customer_id].last_login = Some(t)],
      st  |-> (session_token :> customer_id) @@ st,
      res |-> AuthResult(TRUE, Some(profile), None, Some(session_token))]

AuthSuccess(db, st, customer_id, t) ==
  LET session_token == generate_session_token(customer_id, t)
      profile == [customer_id |-> customer_id,
                  tier |-> db[customer_id].tier,
                  account_status |-> db[customer_id].account_status,
                  last_login |-> Some(t),
                  failed_attempts |-> 0,
                  locked_until |-> None]
  IN [db  |-> [db EXCEPT ![customer_id].failed_attempts = 0,
                         ![customer_id].locked_until = None,
                         ![customer_id].last_login = Some(t)],
      st  |-> (session_token :> customer_id) @@ st,
      res |-> AuthResult(TRUE, Some(profile), None, Some(session_token))]

\* A failure path that locks one attempt late.
AuthFailure_LocksLate(db, st, customer_id, t) ==
  LET new_failed_attempts == db[customer_id].failed_attempts + 1
      locked_until == IF new_failed_attempts > LOCK_THRESHOLD
                      THEN Some(t + LockSeconds) ELSE None
  IN [db  |-> [db EXCEPT ![customer_id].failed_attempts = new_failed_attempts,
                         ![customer_id].locked_until = locked_until],
      st  |-> st,
      res |-> AuthResult(FALSE, None, Some("Invalid authentication credentials"), None)]

\* A failure path that registers a session for the customer all the same.
AuthFailure_OpensSession(db, st, customer_id, t) ==
  LET new_failed_attempts == db[customer_id].failed_attempts + 1
      locked_until == IF new_failed_attempts >= LOCK_THRESHOLD
                      THEN Some(t + LockSeconds) ELSE None
  IN [db  |-> [db EXCEPT ![customer_id].failed_attempts = new_failed_attempts,
                         ![customer_id].locked_until = locked_until],
      st  |-> (generate_session_token(customer_id, t) :> customer_id) @@ st,
      res |-> AuthResult(FALSE, None, Some("Invalid authentication credentials"), None)]

\* A failure path that starts the count afresh once a lockout has run out.
AuthFailure_ForgivesExpired(db, st, customer_id, t) ==
  LET new_failed_attempts == IF db[customer_id].locked_until # None THEN 1
                             ELSE db[customer_id].failed_attempts + 1
      locked_until == IF new_failed_attempts >= LOCK_THRESHOLD
                      THEN Some(t + LockSeconds) ELSE None
  IN [db  |-> [db EXCEPT ![customer_id].failed_attempts = new_failed_attempts,
                         ![customer_id].locked_until = locked_until],
      st  |-> st,
      res |-> AuthResult(FALSE, None, Some("Invalid authentication credentials"), None)]

\* A failure path that counts and never sets the lockout expiry.
AuthFailure_ForgetsLock(db, st, customer_id, t) ==
  [db  |-> [db EXCEPT ![customer_id].failed_attempts = @ + 1,
                      ![customer_id].locked_until = None],
   st  |-> st,
   res |-> AuthResult(FALSE, None, Some("Invalid authentication credentials"), None)]

AuthFailure(db, st, customer_id, t) ==
  LET new_failed_attempts == db[customer_id].failed_attempts + 1
      locked_until == IF new_failed_attempts >= LOCK_THRESHOLD
                      THEN Some(t + LockSeconds) ELSE None
  IN [db  |-> [db EXCEPT ![customer_id].failed_attempts = new_failed_attempts,
                         ![customer_id].locked_until = locked_until],
      st  |-> st,
      res |-> AuthResult(FALSE, None, Some("Invalid authentication credentials"), None)]

\* An authenticate that drops the registry when it finds no row.
authenticate_customer_ForgetsSessions(db, st, customer_id, auth_token, t) ==
  IF customer_id \notin DOMAIN db
  THEN [db |-> db, st |-> [k \in {} |-> customer_id],
        res |-> AuthResult(FALSE, None, Some("Customer not found"), None)]
  ELSE IF IsLocked(db[customer_id], t)
  THEN [db |-> db, st |-> st,
        res |-> AuthResult(FALSE, None,
                  Some("Account is temporarily locked due to multiple failed attempts"), None)]
  ELSE IF db[customer_id].account_status # "active"
  THEN [db |-> db, st |-> st,
        res |-> AuthResult(FALSE, None,
                  Some("Account is " \o db[customer_id].account_status), None)]
  ELSE IF verify_auth_token(db[customer_id].auth_token, auth_token)
  THEN AuthSuccess(db, st, customer_id, t)
  ELSE AuthFailure(db, st, customer_id, t)

\* An authenticate that looks at the account status before the lock.
authenticate_customer_StatusFirst(db, st, customer_id, auth_token, t) ==
  IF customer_id \notin DOMAIN db
  THEN [db |-> db, st |-> st,
        res |-> AuthResult(FALSE, None, Some("Customer not found"), None)]
  ELSE IF db[customer_id].account_status # "active"
  THEN [db |-> db, st |-> st,
        res |-> AuthResult(FALSE, None,
                  Some("Account is " \o db[customer_id].account_status), None)]
  ELSE IF IsLocked(db[customer_id], t)
  THEN [db |-> db, st |-> st,
        res |-> AuthResult(FALSE, None,
                  Some("Account is temporarily locked due to multiple failed attempts"), None)]
  ELSE IF verify_auth_token(db[customer_id].auth_token, auth_token)
  THEN AuthSuccess(db, st, customer_id, t)
  ELSE AuthFailure(db, st, customer_id, t)

authenticate_customer(db, st, customer_id, auth_token, t) ==
  IF customer_id \notin DOMAIN db
  THEN [db |-> db, st |-> st,
        res |-> AuthResult(FALSE, None, Some("Customer not found"), None)]
  ELSE IF IsLocked(db[customer_id], t)
  THEN [db |-> db, st |-> st,
        res |-> AuthResult(FALSE, None,
                  Some("Account is temporarily locked due to multiple failed attempts"), None)]
  ELSE IF db[customer_id].account_status # "active"
  THEN [db |-> db, st |-> st,
        res |-> AuthResult(FALSE, None,
                  Some("Account is " \o db[customer_id].account_status), None)]
  ELSE IF verify_auth_token(db[customer_id].auth_token, auth_token)
  THEN AuthSuccess(db, st, customer_id, t)
  ELSE AuthFailure(db, st, customer_id, t)

verify_session_token(db, st, session_token) ==
  IF session_token \in DOMAIN st
  THEN get_customer_profile(db, st[session_token])
  ELSE None

\* A matrix in which the premium tier lacks a capability of the regular tier.
permissions_Gap ==
  [tier \in CustomerTier |->
     CASE tier = "regular" -> {"ACCOUNT_BALANCE", "TRANSACTION_HISTORY", "GENERAL_BANKING"}
       [] tier = "premium" -> {"ACCOUNT_BALANCE", "TRANSACTION_HISTORY",
                               "CARD_SERVICES", "INVESTMENT_QUERY"}
       [] tier = "hni"     -> {"ACCOUNT_BALANCE", "TRANSACTION_HISTORY", "GENERAL_BANKING",
                               "CARD_SERVICES", "INVESTMENT_QUERY", "REMITTANCE_STATUS"}
       [] tier = "vip"     -> {"ACCOUNT_BALANCE", "TRANSACTION_HISTORY", "GENERAL_BANKING",
                               "CARD_SERVICES", "INVESTMENT_QUERY", "REMITTANCE_STATUS",
                               "LOAN_INQUIRY"}]

permissions ==
  [tier \in CustomerTier |->
     CASE tier = "regular" -> {"ACCOUNT_BALANCE", "TRANSACTION_HISTORY", "GENERAL_BANKING"}
       [] tier = "premium" -> {"ACCOUNT_BALANCE", "TRANSACTION_HISTORY", "GENERAL_BANKING",
                               "CARD_SERVICES", "INVESTMENT_QUERY"}
       [] tier = "hni"     -> {"ACCOUNT_BALANCE", "TRANSACTION_HISTORY", "GENERAL_BANKING",
                               "CARD_SERVICES", "INVESTMENT_QUERY", "REMITTANCE_STATUS"}
       [] tier = "vip"     -> {"ACCOUNT_BALANCE", "TRANSACTION_HISTORY", "GENERAL_BANKING",
                               "CARD_SERVICES", "INVESTMENT_QUERY", "REMITTANCE_STATUS",
                               "LOAN_INQUIRY"}]

\* A permission check that lets every tier ask for everything.
check_permissions_Always(customer_profile, query_type) == TRUE

check_permissions(customer_profile, query_type) ==
  IF customer_profile.tier \in DOMAIN permissions
  THEN query_type \in permissions[customer_profile.tier]
  ELSE FALSE

\* The keyword arguments a caller passes: a dict from field name to value.
\* The UPDATE touches only the columns of the allow-list; a customer_id that
\* matches no row updates nothing and the call still returns True.
UPDATABLE_FIELDS == {"name", "email", "phone", "tier", "account_status", "auth_token"}

update_customer_profile(db, customer_id, kwargs) ==
  LET update_fields == DOMAIN kwargs \cap UPDATABLE_FIELDS
  IN IF update_fields = {}
     THEN [db |-> db, res |-> FALSE]
     ELSE [db |-> [c \in DOMAIN db |->
                     IF c # customer_id THEN db[c]
                     ELSE [f \in DOMAIN db[c] |->
                             IF f \in update_fields THEN kwargs[f] ELSE db[c][f]]],
           res |-> TRUE]

\* A logout that reports a removal whether or not it removed anything.
logout_AlwaysTrue(st, session_token) ==
  [st |-> [k \in DOMAIN st \ {session_token} |-> st[k]], res |-> TRUE]

\* A logout that answers as logout does and deletes nothing.
logout_KeepsToken(st, session_token) ==
  [st |-> st, res |-> session_token \in DOMAIN st]

logout(st, session_token) ==
  IF session_token \in DOMAIN st
  THEN [st |-> [k \in DOMAIN st \ {session_token} |-> st[k]], res |-> TRUE]
  ELSE [st |-> st, res |-> FALSE]


\* -------------------------------------------------------- AuthenticationAgent
\* The in-memory verifier.  Its directory holds CustomerProfile objects, by
\* customer_id; the rows the model follows are those of InitialCustomers.
\* The objects have no credential field.
initialize_customer_database ==
  [c \in DOMAIN InitialCustomers |->
     [customer_id |-> c,
      tier |-> InitialCustomers[c].tier,
      account_status |-> InitialCustomers[c].account_status,
      last_login |-> None,
      failed_attempts |-> 0,
      locked_until |-> None]]

\* _verify_auth_token: one credential for every customer.
\* A credential check that accepts whatever is presented.
in_memory_verify_auth_token_Any(customer_id, auth_token) == TRUE

in_memory_verify_auth_token(customer_id, auth_token) == auth_token = "password123"

\* authenticate_customer: the checks in the order of the PostgreSQL verifier,
\* on the object of the directory, which the success and failure paths
\* change in place; the failure path sets locked_until from the third
\* failure on and otherwise leaves it as it is.
in_memory_authenticate_customer(db, st, customer_id, auth_token, t) ==
  IF customer_id \notin DOMAIN db
  THEN [db |-> db, st |-> st,
        res |-> AuthResult(FALSE, None, Some("Customer not found"), None)]
  ELSE IF db[customer_id].locked_until # None /\ t < db[customer_id].locked_until[1]
  THEN [db |-> db, st |-> st,
        res |-> AuthResult(FALSE, None,
                  Some("Account is temporarily locked due to multiple failed attempts"), None)]
  ELSE IF db[customer_id].account_status # "active"
  THEN [db |-> db, st |-> st,
        res |-> AuthResult(FALSE, None,
                  Some("Account is " \o db[customer_id].account_status), None)]
  ELSE IF in_memory_verify_auth_token(customer_id, auth_token)
  THEN LET customer == [db[customer_id] EXCEPT !.failed_attempts = 0,
                                               !.locked_until = None,
                                               !.last_login = Some(t)]
           session_token == generate_session_token(customer_id, t)
       IN [db  |-> [db EXCEPT ![customer_id] = customer],
           st  |-> (session_token :> customer_id) @@ st,
           res |-> AuthResult(TRUE, Some(customer), None, Some(session_token))]
  ELSE LET failed_attempts == db[customer_id].failed_attempts + 1
           customer == [db[customer_id] EXCEPT
                          !.failed_attempts = failed_attempts,
                          !.locked_until = IF failed_attempts >= LOCK_THRESHOLD
                                           THEN Some(t + LockSeconds) ELSE @]
       IN [db  |-> [db EXCEPT ![customer_id] = customer],
           st  |-> st,
           res |-> AuthResult(FALSE, None, Some("Invalid authentication credentials"), None)]

\* verify_session_token: the object the registry's customer_id leads to.
in_memory_verify_session_token(db, st, session_token) ==
  IF session_token \in DOMAIN st /\ st[session_token] \in DOMAIN db
  THEN Some(db[st[session_token]])
  ELSE None

\* logout: the same statements as the PostgreSQL verifier's.
in_memory_logout(st, session_token) ==
  IF session_token \in DOMAIN st
  THEN [st |-> [k \in DOMAIN st \ {session_token} |-> st[k]], res |-> TRUE]
  ELSE [st |-> st, res |-> FALSE]

\* update_customer_profile: setattr for every keyword that names an attribute
\* of the object, whichever attribute it is; False for an unknown customer.
in_memory_update_customer_profile(db, customer_id, kwargs) ==
  IF customer_id \in DOMAIN db
  THEN [db |-> [db EXCEPT ![customer_id] =
                  [f \in DOMAIN db[customer_id] |->
                     IF f \in DOMAIN kwargs THEN kwargs[f] ELSE db[customer_id][f]]],
        res |-> TRUE]
  ELSE [db |-> db, res |-> FALSE]

\* ------------------------------------------------------ IntentClassifierAgent
\* What the language model may answer (already stripped and upper-cased): a
\* label of the vocabulary or any other text; None is the call raising.
LLMResponses == {Some(i) : i \in valid_intents} \cup {Some("SOMETHING_ELSE"), None}

classify_intent(llm_response) ==
  IF llm_response = None THEN "OUT_OF_SCOPE"
  ELSE IF llm_response[1] \in valid_intents THEN llm_response[1]
  ELSE "OUT_OF_SCOPE"

\* A classifier for which every label is a supported one.
is_supported_intent_All(intent) == TRUE

is_supported_intent(intent) == intent \in SUPPORTED_INTENTS

\* ---------------------------------------------------------- QueryHandlerAgent
\* What crew.kickoff() may do: return a text, or raise (None).
CrewResults == {Some("CREW_RESULT"), None}

\* A handler that hands the crew's failure to its caller as the answer.
handle_query_PassesFailure(intent, crew_result) ==
  IF intent = "OUT_OF_SCOPE" THEN APOLOGY_MESSAGE
  ELSE IF crew_result = None THEN "Error handling query"
  ELSE crew_result[1]

handle_query(intent, crew_result) ==
  IF intent = "OUT_OF_SCOPE" THEN APOLOGY_MESSAGE
  ELSE IF crew_result = None THEN APOLOGY_MESSAGE
  ELSE crew_result[1]

\* -------------------------------------------------------------- BankingRMAgent
Queries == {"What is my account balance?"}

\* process_customer_query.  llm_response and crew_result are what the two
\* language-model calls do in this request.  The outcome is the agent's state
\* after the call, the dict returned and the collaborators called, in order.
SessionExpired ==
  [response |-> "Session expired. Please authenticate again.",
   intent |-> "AUTHENTICATION_REQUIRED",
   supported |-> FALSE,
   customer_profile |-> None,
   error |-> "Invalid or expired session token"]

AuthenticationFailed(error_message) ==
  [response |-> "Authentication failed: " \o error_message,
   intent |-> "AUTHENTICATION_FAILED",
   supported |-> FALSE,
   customer_profile |-> None,
   error |-> error_message]

AccessDenied(intent, customer_profile) ==
  [response |-> "Access denied. Your account tier (" \o customer_profile.tier
                  \o ") does not have permission to access this service.",
   intent |-> intent,
   supported |-> FALSE,
   customer_profile |-> Some(customer_profile),
   error |-> "Insufficient permissions"]

\* A pipeline that keeps only the newest entry in the ledger.
Pipeline_Overwrites(db, st, hist, customer_query, customer_id, customer_profile, llm_response, crew_result, t, identified) ==
  LET intent == classify_intent(llm_response)
      is_supported == is_supported_intent(intent)
      classified == identified \o <<"classify_intent", "is_supported_intent">>
  IN IF customer_profile # None /\ is_supported
        /\ ~check_permissions(customer_profile[1], intent)
     THEN [db |-> db, st |-> st, hist |-> hist,
           res |-> AccessDenied(intent, customer_profile[1]),
           calls |-> classified \o <<"check_permissions">>]
     ELSE LET checked == IF customer_profile # None /\ is_supported
                         THEN classified \o <<"check_permissions">>
                         ELSE classified
              response == IF is_supported
                          THEN handle_query(intent, crew_result)
                          ELSE APOLOGY_MESSAGE
              response_data == [response |-> response,
                                intent |-> intent,
                                supported |-> is_supported,
                                customer_id |-> customer_id,
                                customer_profile |-> customer_profile,
                                timestamp |-> t,
                                query |-> customer_query]
          IN [db |-> db, st |-> st, hist |-> <<response_data>>,
              res |-> response_data,
              calls |-> (IF is_supported THEN checked \o <<"handle_query">> ELSE checked)
                          \o <<"append">>]

\* Steps 1 to 5, once the request is identified (or needs no identification).
Pipeline(db, st, hist, customer_query, customer_id, customer_profile, llm_response, crew_result, t, identified) ==
  LET intent == classify_intent(llm_response)
      is_supported == is_supported_intent(intent)
      classified == identified \o <<"classify_intent", "is_supported_intent">>
  IN IF customer_profile # None /\ is_supported
        /\ ~check_permissions(customer_profile[1], intent)
     THEN [db |-> db, st |-> st, hist |-> hist,
           res |-> AccessDenied(intent, customer_profile[1]),
           calls |-> classified \o <<"check_permissions">>]
     ELSE LET checked == IF customer_profile # None /\ is_supported
                         THEN classified \o <<"check_permissions">>
                         ELSE classified
              response == IF is_supported
                          THEN handle_query(intent, crew_result)
                          ELSE APOLOGY_MESSAGE
              response_data == [response |-> response,
                                intent |-> intent,
                                supported |-> is_supported,
                                customer_id |-> customer_id,
                                customer_profile |-> customer_profile,
                                timestamp |-> t,
                                query |-> customer_query]
          IN [db |-> db, st |-> st, hist |-> Append(hist, response_data),
              res |-> response_data,
              calls |-> (IF is_supported THEN checked \o <<"handle_query">> ELSE checked)
                          \o <<"append">>]

\* An orchestrator that serves a request whose credential was rejected as a
\* request that named no customer.
process_customer_query_ServesRejected(db, st, hist, customer_query, customer_id, auth_token, session_token, llm_response, crew_result, t) ==
  IF customer_id # None /\ (auth_token # None \/ session_token # None)
  THEN IF session_token # None
       THEN LET customer_profile == verify_session_token(db, st, session_token[1])
            IN IF customer_profile = None
               THEN [db |-> db, st |-> st, hist |-> hist, res |-> SessionExpired,
                     calls |-> <<"verify_session_token">>]
               ELSE Pipeline(db, st, hist, customer_query, customer_id, customer_profile,
                             llm_response, crew_result, t, <<"verify_session_token">>)
       ELSE LET a == authenticate_customer(db, st, customer_id[1], auth_token[1], t)
            IN Pipeline(a.db, a.st, hist, customer_query, customer_id,
                        a.res.customer_profile, llm_response, crew_result, t,
                        <<"authenticate_customer">>)
  ELSE Pipeline(db, st, hist, customer_query, customer_id, None,
                llm_response, crew_result, t, << >>)

process_customer_query(db, st, hist, customer_query, customer_id, auth_token, session_token, llm_response, crew_result, t) ==
  IF customer_id # None /\ (auth_token # None \/ session_token # None)
  THEN IF session_token # None
       THEN LET customer_profile == verify_session_token(db, st, session_token[1])
            IN IF customer_profile = None
               THEN [db |-> db, st |-> st, hist |-> hist, res |-> SessionExpired,
                     calls |-> <<"verify_session_token">>]
               ELSE Pipeline(db, st, hist, customer_query, customer_id, customer_profile,
                             llm_response, crew_result, t, <<"verify_session_token">>)
       ELSE LET a == authenticate_customer(db, st, customer_id[1], auth_token[1], t)
            IN IF ~a.res.is_authenticated
               THEN [db |-> a.db, st |-> a.st, hist |-> hist,
                     res |-> AuthenticationFailed(a.res.error_message[1]),
                     calls |-> <<"authenticate_customer">>]
               ELSE Pipeline(a.db, a.st, hist, customer_query, customer_id,
                             a.res.customer_profile, llm_response, crew_result, t,
                             <<"authenticate_customer">>)
  ELSE Pipeline(db, st, hist, customer_query, customer_id, None,
                llm_response, crew_result, t, << >>)

\* get_conversation_history: the entries of one customer, or the ledger.
get_conversation_history(hist, customer_id) ==
  IF customer_id # None
  THEN SelectSeq(hist, LAMBDA entry : entry.customer_id = customer_id)
  ELSE hist

\* dict.get(key) of a ledger entry: the value, or the default for a key the
\* entry does not have.
EntryGet(entry, key, default) ==
  IF key \in DOMAIN entry THEN entry[key] ELSE default

\* get_agent_statistics, without support_rate (supported_queries over
\* total_queries) and last_updated.
get_agent_statistics(hist) ==
  LET entries == 1..Len(hist)
      intents == {EntryGet(hist[k], "intent", "UNKNOWN") : k \in entries}
  IN [total_queries |-> Len(hist),
      supported_queries |->
        Cardinality({k \in entries : EntryGet(hist[k], "is_supported", FALSE)}),
      out_of_scope_queries |->
        Cardinality({k \in entries : EntryGet(hist[k], "intent", "") = "OUT_OF_SCOPE"}),
      intent_distribution |->
        [i \in intents |->
           Cardinality({k \in entries : EntryGet(hist[k], "intent", "UNKNOWN") = i})]]

\* ------------------------------------------------------------- the callers
NoSessions == [k \in {} |-> "CUST001"]

\* A token no login ever returned.
ForgedToken == [customer_id |-> "CUST999", exp |-> 0, iat |-> 0]
KnownTokens == DOMAIN issued \cup {ForgedToken}

WithinBounds(toks) == Cardinality(toks) <= MaxTokens

\* The row a call that authenticates customer_id reads first.
Fetch(customer_id) ==
  IF customer_id \in DOMAIN customers THEN Some(customers[customer_id]) ELSE None

\* The connections on which authenticate calls may be in flight at once.
Connections == {"conn1", "conn2"}

Init ==
  /\ now = 0
  /\ customers = InitialCustomers
  /\ session_tokens = NoSessions
  /\ conversation_history = << >>
  /\ issued = NoSessions
  /\ revoked = {}
  /\ last = [op |-> "init"]
  /\ result = None
  /\ calls = << >>
  /\ ticks = 0
  /\ pending = [w \in Connections |-> None]
  /\ request = None
  /\ in_memory = [customer_database |-> initialize_customer_database,
                  session_tokens |-> NoSessions,
                  result |-> None]

Tick ==
  /\ ticks < MaxTicks
  /\ \E d \in TickSteps : now' = now + d
  /\ ticks' = ticks + 1
  /\ last' = [op |-> "tick"]
  /\ result' = None
  /\ calls' = << >>
  /\ UNCHANGED <<customers, session_tokens, conversation_history, issued, revoked,
                 pending, request, in_memory>>

\* BankingRMAgent.authenticate_customer: the verifier's outcome as a dict.
AuthenticateCustomerOf(ids) ==
  \E customer_id \in ids, auth_token \in Credentials :
    \E r \in {authenticate_customer(customers, session_tokens, customer_id, auth_token, now)} :
       /\ WithinBounds(DOMAIN issued \cup DOMAIN r.st)
       /\ customers' = r.db
       /\ session_tokens' = r.st
       /\ issued' = IF r.res.is_authenticated
                    THEN (r.res.session_token[1] :> customer_id) @@ issued
                    ELSE issued
       /\ result' = r.res
       /\ last' = [op |-> "authenticate", customer_id |-> customer_id,
                   auth_token |-> auth_token, customer_data |-> Fetch(customer_id)]
       /\ calls' = <<"authenticate_customer">>
       /\ UNCHANGED <<now, conversation_history, revoked, ticks, pending, request, in_memory>>

AuthenticateCustomer == AuthenticateCustomerOf(CallerIds)

\* BankingRMAgent.logout_customer
LogoutCustomer ==
  \E session_token \in KnownTokens :
    \E r \in {logout(session_tokens, session_token)} :
       /\ session_tokens' = r.st
       /\ revoked' = IF r.res THEN revoked \cup {session_token} ELSE revoked
       /\ result' = Some(r.res)
       /\ last' = [op |-> "logout", session_token |-> session_token]
       /\ calls' = <<"logout">>
       /\ UNCHANGED <<now, customers, conversation_history, issued, ticks, pending, request, in_memory>>

\* auth_agent.verify_session_token called directly, as the tests do.
VerifySessionToken ==
  \E session_token \in KnownTokens :
    /\ result' = verify_session_token(customers, session_tokens, session_token)
    /\ last' = [op |-> "verify", session_token |-> session_token]
    /\ calls' = <<"verify_session_token">>
    /\ UNCHANGED <<now, customers, session_tokens, conversation_history,
                   issued, revoked, ticks, pending, request, in_memory>>

\* auth_agent.update_customer_profile, with the edit the model makes: the
\* back office suspending an account.
ProfileUpdates == {("account_status" :> "suspended")}

UpdateCustomerProfileOf(updates) ==
  \E customer_id \in CallerIds, kwargs \in updates :
    \E r \in {update_customer_profile(customers, customer_id, kwargs)} :
       /\ customers' = r.db
       /\ result' = Some(r.res)
       /\ last' = [op |-> "update", customer_id |-> customer_id, kwargs |-> kwargs]
       /\ calls' = <<"update_customer_profile">>
       /\ UNCHANGED <<now, session_tokens, conversation_history, issued, revoked, ticks, pending, request, in_memory>>

UpdateCustomerProfile == UpdateCustomerProfileOf(ProfileUpdates)

\* auth_agent.check_permissions called directly, as the tests do, with the
\* profile of a customer of the directory and any label.
Labels == valid_intents \cup {"SOMETHING_ELSE"}

CheckPermissions ==
  \E customer_id \in DOMAIN customers, query_type \in Labels :
    /\ result' = Some(check_permissions(
                        get_customer_profile(customers, customer_id)[1], query_type))
    /\ last' = [op |-> "check_permissions", customer_id |-> customer_id,
                tier |-> customers[customer_id].tier, query_type |-> query_type]
    /\ calls' = <<"check_permissions">>
    /\ UNCHANGED <<now, customers, session_tokens, conversation_history,
                   issued, revoked, ticks, pending, request, in_memory>>

\* BankingRMAgent.process_customer_query.  The token of a login made inside
\* the call is stored in session_tokens and not returned to the caller.
QueryAuthTokens == {None} \cup {Some(a) : a \in Credentials}
QuerySessionTokens == {None} \cup {Some(k) : k \in KnownTokens}

ProcessCustomerQueryOf(ids, llm_responses, crew_results) ==
  \E customer_query \in Queries, customer_id \in {None} \cup {Some(c) : c \in ids},
     auth_token \in QueryAuthTokens, session_token \in QuerySessionTokens,
     llm_response \in llm_responses, crew_result \in crew_results :
    \E r \in {process_customer_query(customers, session_tokens, conversation_history,
                 customer_query, customer_id, auth_token, session_token,
                 llm_response, crew_result, now)} :
       /\ WithinBounds(DOMAIN issued \cup DOMAIN r.st)
       /\ Len(r.hist) <= MaxHistory
       /\ customers' = r.db
       /\ session_tokens' = r.st
       /\ conversation_history' = r.hist
       /\ result' = r.res
       /\ calls' = r.calls
       /\ last' = [op |-> "query", customer_id |-> customer_id,
                   auth_token |-> auth_token, session_token |-> session_token,
                   llm_response |-> llm_response, crew_result |-> crew_result,
                   customer_data |-> IF customer_id = None THEN None
                                     ELSE Fetch(customer_id[1])]
       /\ UNCHANGED <<now, issued, revoked, ticks, pending, request, in_memory>>

ProcessCustomerQuery == ProcessCustomerQueryOf(CallerIds, LLMResponses, CrewResults)

\* BankingRMAgent.reset_conversation_history
ResetConversationHistory ==
  /\ conversation_history # << >>
  /\ conversation_history' = << >>
  /\ result' = None
  /\ calls' = <<"reset_conversation_history">>
  /\ last' = [op |-> "reset"]
  /\ UNCHANGED <<now, customers, session_tokens, issued, revoked, ticks, pending, request, in_memory>>

\* BankingRMAgent.get_agent_statistics
GetAgentStatistics ==
  /\ result' = get_agent_statistics(conversation_history)
  /\ calls' = <<"get_agent_statistics">>
  /\ last' = [op |-> "statistics"]
  /\ UNCHANGED <<now, customers, session_tokens, conversation_history,
                 issued, revoked, ticks, pending, request, in_memory>>

\* BankingRMAgent.get_conversation_history
GetConversationHistory ==
  \E customer_id \in {None} \cup {Some(c) : c \in CallerIds} :
    /\ result' = get_conversation_history(conversation_history, customer_id)
    /\ calls' = <<"get_conversation_history">>
    /\ last' = [op |-> "history", customer_id |-> customer_id]
    /\ UNCHANGED <<now, customers, session_tokens, conversation_history,
                   issued, revoked, ticks, pending, request, in_memory>>

\* authenticate_customer on its own connection, up to and including the
\* SELECT: the row is fetched and held by the call.
BeginAuthenticateOf(ids) ==
  \E w \in Connections, customer_id \in ids, auth_token \in Credentials :
    /\ pending[w] = None
    /\ pending' = [pending EXCEPT ![w] = Some([customer_id |-> customer_id,
                                               auth_token |-> auth_token,
                                               customer_data |-> Fetch(customer_id)])]
    /\ last' = [op |-> "select", customer_id |-> customer_id, connection |-> w]
    /\ result' = None
    /\ calls' = << >>
    /\ UNCHANGED <<now, customers, session_tokens, conversation_history,
                   issued, revoked, ticks, request, in_memory>>

\* The table as the call saw it: its own row as fetched.
AsRead(db, p) ==
  IF p.customer_data = None THEN db
  ELSE [db EXCEPT ![p.customer_id] = p.customer_data[1]]

\* The UPDATE of the call applied to the table as it is now: the success
\* path sets failed_attempts, locked_until and last_login, the failure path
\* failed_attempts and locked_until, to the values computed from the row
\* the call read; the other paths issue no UPDATE.
ApplyUpdate(db, customer_id, computed, res) ==
  IF res.is_authenticated
  THEN [db EXCEPT ![customer_id].failed_attempts = computed.failed_attempts,
                  ![customer_id].locked_until = computed.locked_until,
                  ![customer_id].last_login = computed.last_login]
  ELSE IF res.error_message = Some("Invalid authentication credentials")
  THEN [db EXCEPT ![customer_id].failed_attempts = computed.failed_attempts,
                  ![customer_id].locked_until = computed.locked_until]
  ELSE db

\* The rest of authenticate_customer on that connection: the checks on the
\* fetched row, the UPDATE and commit, the session token, the result.
FinishAuthenticate ==
  \E w \in Connections :
    /\ pending[w] # None
    /\ LET p == pending[w][1]
       IN \E r \in {authenticate_customer(AsRead(customers, p), session_tokens,
                                          p.customer_id, p.auth_token, now)} :
            /\ WithinBounds(DOMAIN issued \cup DOMAIN r.st)
            /\ customers' = IF p.customer_data = None THEN customers
                            ELSE ApplyUpdate(customers, p.customer_id,
                                             r.db[p.customer_id], r.res)
            /\ session_tokens' = r.st
            /\ issued' = IF r.res.is_authenticated
                         THEN (r.res.session_token[1] :> p.customer_id) @@ issued
                         ELSE issued
            /\ result' = r.res
            /\ last' = [op |-> "authenticate", customer_id |-> p.customer_id,
                        auth_token |-> p.auth_token, customer_data |-> p.customer_data,
                        connection |-> w]
            /\ calls' = <<"authenticate_customer">>
    /\ pending' = [pending EXCEPT ![w] = None]
    /\ UNCHANGED <<now, conversation_history, revoked, ticks, request, in_memory>>

\* process_customer_query followed call by call.  The handler has no loop:
\* it calls its collaborators one after the other and returns.  A request is
\* accepted into `request`, each collaborator it calls returns or fails in
\* a step of its own, and the handler's return makes its effects and its
\* result visible.  One request is in progress at a time.
InProgress ==
  process_customer_query(customers, session_tokens, conversation_history, request[1].customer_query, request[1].customer_id, request[1].auth_token, request[1].session_token, request[1].llm_response, request[1].crew_result, now)

\* How many collaborators have returned once one more has.
NextReturned_Retries(returned) == IF returned >= 1 THEN 1 ELSE returned + 1

NextReturned(returned) == returned + 1

SubmitQueryOf(ids, llm_responses, crew_results) ==
  /\ request = None
  /\ conversation_history = << >>
  /\ \E customer_query \in Queries, customer_id \in {None} \cup {Some(c) : c \in ids},
        auth_token \in QueryAuthTokens, session_token \in QuerySessionTokens,
        llm_response \in llm_responses, crew_result \in crew_results :
       /\ \E r \in {process_customer_query(customers, session_tokens,
                       conversation_history, customer_query, customer_id,
                       auth_token, session_token, llm_response, crew_result, now)} :
            /\ WithinBounds(DOMAIN issued \cup DOMAIN r.st)
            /\ Len(r.hist) <= MaxHistory
       /\ request' = Some([customer_query |-> customer_query,
                           customer_id |-> customer_id,
                           auth_token |-> auth_token,
                           session_token |-> session_token,
                           llm_response |-> llm_response,
                           crew_result |-> crew_result,
                           returned |-> 0])
  /\ last' = [op |-> "submit"]
  /\ result' = None
  /\ calls' = << >>
  /\ UNCHANGED <<now, customers, session_tokens, conversation_history, issued,
                 revoked, ticks, pending, in_memory>>

\* The next collaborator of the request returns, or fails.
CollaboratorReturns ==
  /\ request # None
  /\ request[1].returned < Len(InProgress.calls)
  /\ request' = Some([request[1] EXCEPT !.returned = NextReturned(@)])
  /\ calls' = SubSeq(InProgress.calls, 1, NextReturned(request[1].returned))
  /\ last' = [op |-> "stage"]
  /\ result' = None
  /\ UNCHANGED <<now, customers, session_tokens, conversation_history, issued,
                 revoked, ticks, pending, in_memory>>

\* Every collaborator of the request has returned: the handler returns.
ReturnResult ==
  /\ request # None
  /\ request[1].returned = Len(InProgress.calls)
  /\ customers' = InProgress.db
  /\ session_tokens' = InProgress.st
  /\ conversation_history' = InProgress.hist
  /\ result' = InProgress.res
  /\ calls' = InProgress.calls
  /\ last' = [op |-> "query", customer_id |-> request[1].customer_id,
              auth_token |-> request[1].auth_token,
              session_token |-> request[1].session_token,
              llm_response |-> request[1].llm_response,
              crew_result |-> request[1].crew_result,
              customer_data |-> IF request[1].customer_id = None THEN None
                                ELSE Fetch(request[1].customer_id[1])]
  /\ request' = None
  /\ UNCHANGED <<now, issued, revoked, ticks, pending, in_memory>>

\* The two verifiers side by side: every call is made on the PostgreSQL
\* verifier and on the in-memory one, with the same arguments at the same
\* time of the clock.
TwinAuthenticateOf(ids) ==
  \E customer_id \in ids, auth_token \in Credentials :
    \E r \in {authenticate_customer(customers, session_tokens, customer_id, auth_token, now)},
       m \in {in_memory_authenticate_customer(in_memory.customer_database,
                 in_memory.session_tokens, customer_id, auth_token, now)} :
       /\ WithinBounds(DOMAIN issued \cup DOMAIN r.st \cup DOMAIN m.st)
       /\ customers' = r.db
       /\ session_tokens' = r.st
       /\ issued' = IF r.res.is_authenticated
                    THEN (r.res.session_token[1] :> customer_id) @@ issued
                    ELSE issued
       /\ result' = r.res
       /\ in_memory' = [customer_database |-> m.db, session_tokens |-> m.st,
                        result |-> m.res]
       /\ last' = [op |-> "authenticate", customer_id |-> customer_id,
                   auth_token |-> auth_token, customer_data |-> Fetch(customer_id)]
       /\ calls' = <<"authenticate_customer">>
       /\ UNCHANGED <<now, conversation_history, revoked, ticks, pending, request>>

TwinAuthenticate == TwinAuthenticateOf(CallerIds)

TwinVerifySessionToken ==
  \E session_token \in KnownTokens :
    /\ result' = verify_session_token(customers, session_tokens, session_token)
    /\ in_memory' = [in_memory EXCEPT !.result =
                       in_memory_verify_session_token(in_memory.customer_database,
                         in_memory.session_tokens, session_token)]
    /\ last' = [op |-> "verify", session_token |-> session_token]
    /\ calls' = <<"verify_session_token">>
    /\ UNCHANGED <<now, customers, session_tokens, conversation_history,
                   issued, revoked, ticks, pending, request>>

TwinLogout ==
  \E session_token \in KnownTokens :
    \E r \in {logout(session_tokens, session_token)},
       m \in {in_memory_logout(in_memory.session_tokens, session_token)} :
       /\ session_tokens' = r.st
       /\ revoked' = IF r.res THEN revoked \cup {session_token} ELSE revoked
       /\ result' = Some(r.res)
       /\ in_memory' = [in_memory EXCEPT !.session_tokens = m.st,
                                         !.result = Some(m.res)]
       /\ last' = [op |-> "logout", session_token |-> session_token]
       /\ calls' = <<"logout">>
       /\ UNCHANGED <<now, customers, conversation_history, issued, ticks,
                      pending, request>>

\* update_customer_profile of both verifiers, with keyword arguments that
\* name a profile field, the counter or the customer id.
TwinProfileUpdates ==
  {("tier" :> "premium"), ("failed_attempts" :> 0), ("customer_id" :> "CUST999")}

TwinUpdateCustomerProfileOf(ids) ==
  \E customer_id \in ids, kwargs \in TwinProfileUpdates :
    \E r \in {update_customer_profile(customers, customer_id, kwargs)},
       m \in {in_memory_update_customer_profile(in_memory.customer_database,
                 customer_id, kwargs)} :
       /\ customers' = r.db
       /\ result' = Some(r.res)
       /\ in_memory' = [in_memory EXCEPT !.customer_database = m.db,
                                         !.result = Some(m.res)]
       /\ last' = [op |-> "update", customer_id |-> customer_id, kwargs |-> kwargs]
       /\ calls' = <<"update_customer_profile">>
       /\ UNCHANGED <<now, session_tokens, conversation_history, issued, revoked,
                      ticks, pending, request>>

\* Every operation.
Next ==
  \/ Tick
  \/ AuthenticateCustomer
  \/ LogoutCustomer
  \/ VerifySessionToken
  \/ UpdateCustomerProfile
  \/ ProcessCustomerQuery
  \/ ResetConversationHistory
  \/ GetAgentStatistics
  \/ GetConversationHistory
  \/ CheckPermissions
  \/ BeginAuthenticateOf(CallerIds)
  \/ FinishAuthenticate

Spec == Init /\ [][Next]_vars

\* The verifier: the operations that read or write a customer's lockout
\* fields, and the clock.  The other operations leave the customers table and
\* the clock alone, so the table's reachable contents are those of Spec.
NextLockout ==
  \/ Tick
  \/ AuthenticateCustomer
  \/ UpdateCustomerProfile

SpecLockout == Init /\ [][NextLockout]_vars

\* The session registry: the operations that read or write session_tokens,
\* and the clock.
NextSession ==
  \/ Tick
  \/ AuthenticateCustomer
  \/ LogoutCustomer
  \/ VerifySessionToken

SpecSession == Init /\ [][NextSession]_vars

\* The orchestrator's operations at one instant of the clock.  The classifier
\* answers with a label only the upper tiers may ask for, one every tier may,
\* an unsupported one, or it fails.  The pipeline never reads the ledger;
\* here each request finds it empty.
QueryLLMResponses ==
  {Some("REMITTANCE_STATUS"), Some("ACCOUNT_BALANCE"), Some("LOAN_INQUIRY"), None}
QueryCrewResults == {Some("CREW_RESULT")}

QueryPipeline ==
  /\ conversation_history = << >>
  /\ ProcessCustomerQueryOf(CallerIds, QueryLLMResponses, QueryCrewResults)

NextQuery ==
  \/ QueryPipeline
  \/ AuthenticateCustomer
  \/ LogoutCustomer
  \/ ResetConversationHistory

SpecQuery == Init /\ [][NextQuery]_vars

\* The ledger: requests of the regular-tier customer CUST003 and of callers
\* who name no customer, at one instant of the clock, with a classifier and
\* a crew that may fail; the ledger's readers, and its reset.
LedgerIds == {"CUST003"}
LedgerLLMResponses ==
  {Some("REMITTANCE_STATUS"), Some("ACCOUNT_BALANCE"), Some("LOAN_INQUIRY"),
   Some("SOMETHING_ELSE"), None}

LedgerQuery == ProcessCustomerQueryOf(LedgerIds, LedgerLLMResponses, CrewResults)

NextLedger ==
  \/ LedgerQuery
  \/ ResetConversationHistory
  \/ GetAgentStatistics
  \/ GetConversationHistory

SpecLedger == Init /\ [][NextLedger]_vars

\* The permission authority: the back office moving customers between
\* tiers, and permission checks for the customers of the directory.
TierUpdates == {("tier" :> t) : t \in CustomerTier}

UpdateTier == UpdateCustomerProfileOf(TierUpdates)

NextPermissions ==
  \/ UpdateTier
  \/ CheckPermissions

SpecPermissions == Init /\ [][NextPermissions]_vars

\* The verifier under concurrency: authenticate calls for one active
\* customer in flight on two connections, and the clock.
ConcurrentIds == {"CUST001"}

BeginAuthenticate == BeginAuthenticateOf(ConcurrentIds)

NextConcurrent ==
  \/ Tick
  \/ BeginAuthenticate
  \/ FinishAuthenticate

SpecConcurrent == Init /\ [][NextConcurrent]_vars

\* ------------------------------------------------------------------ claims
\* One request at a time, followed call by call: CUST003 or a caller who
\* names no customer, with a classifier and a crew that may fail.  Every
\* call the handler makes returns or fails, and the handler returns when
\* its calls have: the two fairness conditions.
SubmitQuery == SubmitQueryOf(LedgerIds, LedgerLLMResponses, CrewResults)

NextStaged ==
  \/ SubmitQuery
  \/ CollaboratorReturns
  \/ ReturnResult
  \/ ResetConversationHistory

SpecStaged ==
  /\ Init
  /\ [][NextStaged]_vars
  /\ WF_vars(CollaboratorReturns)
  /\ WF_vars(ReturnResult)

\* Sessions and the back office: CUST003 logs in, accounts are suspended by
\* profile updates, and requests arrive in CUST003's name on a session or
\* with a credential, each finding the ledger empty.
StatusIds == {"CUST003"}
StatusLLMResponses == {Some("ACCOUNT_BALANCE"), Some("LOAN_INQUIRY")}

StatusAuthenticate == AuthenticateCustomerOf(StatusIds)

StatusQuery ==
  /\ conversation_history = << >>
  /\ ProcessCustomerQueryOf(StatusIds, StatusLLMResponses, QueryCrewResults)

NextStatus ==
  \/ StatusAuthenticate
  \/ UpdateCustomerProfile
  \/ StatusQuery
  \/ ResetConversationHistory

SpecStatus == Init /\ [][NextStatus]_vars

\* The two verifiers driven by the same calls, one call after the other,
\* over the clock.
NextTwin ==
  \/ Tick
  \/ TwinAuthenticate
  \/ TwinVerifySessionToken
  \/ TwinLogout

SpecTwin == Init /\ [][NextTwin]_vars

\* Logins and profile updates on both verifiers, at one instant of the
\* clock, for CUST003 and for a customer_id that is in no directory.
ProfileIds == {"CUST003", "CUST999"}

ProfileAuthenticate == TwinAuthenticateOf(ProfileIds)

TwinUpdateCustomerProfile == TwinUpdateCustomerProfileOf(ProfileIds)

NextProfile ==
  \/ ProfileAuthenticate
  \/ TwinUpdateCustomerProfile

SpecProfile == Init /\ [][NextProfile]_vars

\* The state right after an authenticate call that found a row: the row it
\* read is last.customer_data[1], the row it left is customers[last.customer_id].
AfterAuthenticate ==
  /\ last.op = "authenticate"
  /\ last.customer_data # None

RowRead == last.customer_data[1]
RowLeft == customers[last.customer_id]

\* C1: while a customer's lockout expiry is set and in the future, every
\* authenticate call for that customer, with the right or a wrong credential,
\* fails with "Account is temporarily locked ..." and leaves the
\* failed-attempt counter and the lockout expiry as they were.
C1_LockedAttemptChangesNothing ==
  (/\ AfterAuthenticate
   /\ RowRead.locked_until # None
   /\ now < RowRead.locked_until[1])
  => /\ ~result.is_authenticated
     /\ result.error_message =
          Some("Account is temporarily locked due to multiple failed attempts")
     /\ result.session_token = None
     /\ RowLeft.failed_attempts = RowRead.failed_attempts
     /\ RowLeft.locked_until = RowRead.locked_until

\* The right credential, a second into a lock set by the third wrong attempt.
C1_Witness ==
  /\ AfterAuthenticate
  /\ last.auth_token = RowRead.auth_token
  /\ RowRead.account_status = "active"
  /\ RowRead.failed_attempts = 3
  /\ RowRead.locked_until = Some(15 * 60)
  /\ now = 1
  /\ ~result.is_authenticated

\* C2: for an active customer outside a lock window a wrong credential is
\* answered "Invalid authentication credentials" and adds exactly 1 to the
\* stored counter; the first and the second wrong attempt from 0 leave the
\* lockout expiry unset, the third sets it to the time of the attempt plus
\* 15 minutes.
C2_WrongCredentialCounts ==
  (/\ AfterAuthenticate
   /\ RowRead.account_status = "active"
   /\ ~(RowRead.locked_until # None /\ now < RowRead.locked_until[1])
   /\ last.auth_token # RowRead.auth_token)
  => /\ ~result.is_authenticated
     /\ result.error_message = Some("Invalid authentication credentials")
     /\ RowLeft.failed_attempts = RowRead.failed_attempts + 1
     /\ (RowRead.failed_attempts \in {0, 1} => RowLeft.locked_until = None)
     /\ (RowRead.failed_attempts = 2 => RowLeft.locked_until = Some(now + 15 * 60))

\* The third wrong attempt in a row, made a second after the first two.
C2_Witness ==
  /\ AfterAuthenticate
  /\ last.auth_token # RowRead.auth_token
  /\ RowRead.account_status = "active"
  /\ RowRead.failed_attempts = 2
  /\ RowRead.locked_until = None
  /\ now = 1
  /\ RowLeft.failed_attempts = 3
  /\ RowLeft.locked_until = Some(1 + 15 * 60)

\* C3: for an active customer outside a lock window the right credential
\* succeeds whatever the counter is; afterwards the counter is 0, the lockout
\* expiry is cleared, last_login is the time of the call, and the outcome
\* carries the customer's profile and a session token that the registry
\* holds for that customer.
C3_RightCredentialResets ==
  (/\ AfterAuthenticate
   /\ RowRead.account_status = "active"
   /\ ~(RowRead.locked_until # None /\ now < RowRead.locked_until[1])
   /\ last.auth_token = RowRead.auth_token)
  => /\ result.is_authenticated
     /\ result.error_message = None
     /\ RowLeft.failed_attempts = 0
     /\ RowLeft.locked_until = None
     /\ RowLeft.last_login = Some(now)
     /\ result.customer_profile # None
     /\ result.customer_profile[1].customer_id = last.customer_id
     /\ result.customer_profile[1].tier = RowRead.tier
     /\ result.session_token # None
     /\ result.session_token[1] \in DOMAIN session_tokens
     /\ session_tokens[result.session_token[1]] = last.customer_id

\* A login with counter 3 at the instant the lockout expires.
C3_Witness ==
  /\ AfterAuthenticate
  /\ RowRead.failed_attempts = 3
  /\ RowRead.locked_until = Some(now)
  /\ result.is_authenticated
  /\ RowLeft.failed_attempts = 0

\* C4 as claimed: for a customer whose status is not active, in every
\* reachable state, authenticate fails with "Account is <status>" whatever
\* the credential, and does not change the counter.
C4_Claimed ==
  (/\ AfterAuthenticate
   /\ RowRead.account_status # "active")
  => /\ ~result.is_authenticated
     /\ result.error_message = Some("Account is " \o RowRead.account_status)
     /\ RowLeft.failed_attempts = RowRead.failed_attempts

\* C4 as amended: for a customer whose status is not active authenticate
\* fails whatever the credential and does not change the counter; the
\* answer is "Account is <status>" unless a lockout expiry is set and in the
\* future, and then it is "Account is temporarily locked ...".
C4_InactiveNeverAuthenticates ==
  (/\ AfterAuthenticate
   /\ RowRead.account_status # "active")
  => /\ ~result.is_authenticated
     /\ result.session_token = None
     /\ RowLeft.failed_attempts = RowRead.failed_attempts
     /\ result.error_message =
          IF RowRead.locked_until # None /\ now < RowRead.locked_until[1]
          THEN Some("Account is temporarily locked due to multiple failed attempts")
          ELSE Some("Account is " \o RowRead.account_status)

\* The right credential for an account suspended while it was locked.
C4_Witness ==
  /\ AfterAuthenticate
  /\ RowRead.account_status = "suspended"
  /\ RowRead.failed_attempts = 3
  /\ RowRead.locked_until # None
  /\ now < RowRead.locked_until[1]
  /\ last.auth_token = RowRead.auth_token
  /\ result.error_message =
       Some("Account is temporarily locked due to multiple failed attempts")

\* C6: a token a successful authenticate returned, verified before any
\* logout of it, yields the record of the customer that authenticated; and
\* in the state a successful logout of a token leaves, verifying that token
\* yields nothing.
C6_RegistryRoundTrip ==
  /\ (/\ last.op = "verify"
      /\ last.session_token \in DOMAIN issued
      /\ last.session_token \notin revoked)
     => /\ result # None
        /\ result[1].customer_id = issued[last.session_token]
  /\ (/\ last.op = "logout"
      /\ result = Some(TRUE))
     => verify_session_token(customers, session_tokens, last.session_token) = None

\* The logout of a token that a login of CUST003 returned.
C6_Witness ==
  /\ last.op = "logout"
  /\ result = Some(TRUE)
  /\ last.session_token \in DOMAIN issued
  /\ issued[last.session_token] = "CUST003"
  /\ last.session_token \in revoked
  /\ verify_session_token(customers, session_tokens, last.session_token) = None

\* C7 as claimed: verifying a token that no logout removed, at a time after
\* the expiry instant it was issued with (issuance + 24 hours), yields
\* nothing.
C7_Claimed ==
  (/\ last.op = "verify"
   /\ last.session_token \in DOMAIN issued
   /\ last.session_token \notin revoked
   /\ now > last.session_token.exp)
  => result = None

\* C8 as claimed: verifying a token that a logout has removed yields nothing,
\* whatever happened since.
C8_Claimed ==
  (/\ last.op = "verify"
   /\ last.session_token \in revoked)
  => result = None

\* The state right after a process_customer_query call.
AfterQuery == last.op = "query"

\* The call named a customer and presented only a credential.
ByCredential ==
  /\ AfterQuery
  /\ last.customer_id # None
  /\ last.session_token = None
  /\ last.auth_token # None

\* The call named a customer and presented a session token the registry holds.
BySession ==
  /\ AfterQuery
  /\ last.customer_id # None
  /\ last.session_token # None
  /\ last.session_token[1] \in DOMAIN session_tokens

\* The credential presented is one the verifier accepts: the row exists, is
\* not in a lock window, is active, and stores that credential.
CredentialAccepted ==
  /\ ByCredential
  /\ last.customer_data # None
  /\ ~(RowRead.locked_until # None /\ now < RowRead.locked_until[1])
  /\ RowRead.account_status = "active"
  /\ last.auth_token[1] = RowRead.auth_token

\* The tier of the customer the call was authenticated as.
AuthenticatedTier ==
  IF BySession THEN customers[session_tokens[last.session_token[1]]].tier
  ELSE RowRead.tier

C9_Claimed ==
  (/\ AfterQuery
   /\ last.session_token # None
   /\ last.session_token[1] \notin DOMAIN session_tokens)
  => /\ "error" \in DOMAIN result
     /\ result.error = "Invalid or expired session token"
     /\ result.intent = "AUTHENTICATION_REQUIRED"
     /\ calls = <<"verify_session_token">>

\* The verifier's classification of a credential for the row the call read.
Classification ==
  IF last.customer_data = None THEN "Customer not found"
  ELSE IF RowRead.locked_until # None /\ now < RowRead.locked_until[1]
  THEN "Account is temporarily locked due to multiple failed attempts"
  ELSE IF RowRead.account_status # "active"
  THEN "Account is " \o RowRead.account_status
  ELSE "Invalid authentication credentials"

\* C10: when the call presents a credential and no session token and the
\* verifier rejects it, the result is the AUTHENTICATION_FAILED one with the
\* verifier's classification, the verifier is called once and nothing after
\* it, the ledger gets no entry, and the customer's counter and lockout
\* expiry change as a direct authenticate call changes them: a wrong
\* credential for an active customer outside a lock window adds 1 and locks
\* at 3, every other rejection changes nothing.
C10_RejectedCredentialHalts ==
  (/\ ByCredential
   /\ ~CredentialAccepted)
  => /\ "error" \in DOMAIN result
     /\ result.intent = "AUTHENTICATION_FAILED"
     /\ result.error = Classification
     /\ result.response = "Authentication failed: " \o Classification
     /\ result.customer_profile = None
     /\ calls = <<"authenticate_customer">>
     /\ conversation_history = << >>
     /\ last.customer_data # None =>
          LET left == customers[last.customer_id[1]]
          IN IF Classification = "Invalid authentication credentials"
             THEN /\ left.failed_attempts = RowRead.failed_attempts + 1
                  /\ left.locked_until =
                       IF RowRead.failed_attempts + 1 >= 3
                       THEN Some(now + 15 * 60) ELSE None
             ELSE /\ left.failed_attempts = RowRead.failed_attempts
                  /\ left.locked_until = RowRead.locked_until

\* The third wrong credential in a row, presented through the orchestrator:
\* rejected as invalid, and the account is locked by it.
C10_Witness ==
  /\ ByCredential
  /\ last.customer_data # None
  /\ RowRead.failed_attempts = 2
  /\ last.auth_token[1] # RowRead.auth_token
  /\ "error" \in DOMAIN result
  /\ result.error = "Invalid authentication credentials"
  /\ customers[last.customer_id[1]].failed_attempts = 3
  /\ customers[last.customer_id[1]].locked_until = Some(now + 15 * 60)

\* The last call invoked the named collaborator.
Called(name) == \E i \in 1..Len(calls) : calls[i] = name

\* C11 as claimed: a process_customer_query call whose classified intent is
\* not a supported one returns the apology text, and out_of_scope_queries of
\* get_agent_statistics is 1 greater after the call than before it.
C11_Claimed ==
  [][(/\ last'.op = "query"
      /\ Called("classify_intent")'
      /\ result'.intent \notin SUPPORTED_INTENTS)
     => /\ result'.response = APOLOGY_MESSAGE
        /\ get_agent_statistics(conversation_history').out_of_scope_queries
             = get_agent_statistics(conversation_history).out_of_scope_queries + 1]_vars

\* C12 as claimed: every process_customer_query call that reaches the
\* classifier, whether it ends with the apology, a denial or an answer,
\* appends exactly one entry, which carries a timestamp, to
\* conversation_history.
C12_Claimed ==
  [][(/\ last'.op = "query"
      /\ Called("classify_intent")')
     => /\ Len(conversation_history') = Len(conversation_history) + 1
        /\ SubSeq(conversation_history', 1, Len(conversation_history))
             = conversation_history
        /\ "timestamp" \in DOMAIN conversation_history'[Len(conversation_history')]]_vars

\* The sum of the counts of an intent table.
RECURSIVE SumOver(_, _)
SumOver(table, keys) ==
  IF keys = {} THEN 0
  ELSE LET k == CHOOSE x \in keys : TRUE
       IN table[k] + SumOver(table, keys \ {k})

\* The number of ledger entries whose supported flag is the given one.
EntriesFlagged(flag) ==
  Cardinality({k \in 1..Len(conversation_history) :
                 conversation_history[k].supported = flag})

\* C13 as claimed: what get_agent_statistics reports agrees with the ledger:
\* total_queries is the number of entries, supported_queries the number of
\* entries whose supported flag is true, the unsupported count the number
\* whose flag is false, so that the two add up to the total, and the counts
\* of intent_distribution add up to the total.
C13_Claimed ==
  last.op = "statistics"
  => /\ result.total_queries = Len(conversation_history)
     /\ result.supported_queries = EntriesFlagged(TRUE)
     /\ result.out_of_scope_queries = EntriesFlagged(FALSE)
     /\ result.supported_queries + result.out_of_scope_queries = result.total_queries
     /\ SumOver(result.intent_distribution, DOMAIN result.intent_distribution)
          = result.total_queries

\* The tiers in the order of their entitlement.
TierRank == [t \in CustomerTier |->
               CASE t = "regular" -> 1 [] t = "premium" -> 2
                 [] t = "hni" -> 3 [] t = "vip" -> 4]

\* What check_permissions answers for a profile of the tier.
IsAllowed(tier, capability) == check_permissions([tier |-> tier], capability)

\* C14: every tier is allowed at least one capability; a capability allowed
\* to a tier is allowed to every tier above it, and in particular a check
\* that has just answered yes would answer yes for every higher tier; and a
\* label outside the matrix (OUT_OF_SCOPE, or any other text) is denied to
\* every tier.
C14_MatrixTotalAndMonotone ==
  /\ \A t \in CustomerTier : \E c \in Labels : IsAllowed(t, c)
  /\ \A t1, t2 \in CustomerTier :
       TierRank[t1] < TierRank[t2]
       => \A c \in Labels : IsAllowed(t1, c) => IsAllowed(t2, c)
  /\ \A t \in CustomerTier :
       ~IsAllowed(t, "OUT_OF_SCOPE") /\ ~IsAllowed(t, "SOMETHING_ELSE")
  /\ (last.op = "check_permissions" /\ result = Some(TRUE))
     => \A t2 \in CustomerTier :
          TierRank[last.tier] < TierRank[t2] => IsAllowed(t2, last.query_type)
  /\ (last.op = "check_permissions" /\ last.query_type \in {"OUT_OF_SCOPE", "SOMETHING_ELSE"})
     => result = Some(FALSE)

\* CUST003, moved from the regular to the premium tier, is allowed a
\* capability the regular tier has.
C14_Witness ==
  /\ last.op = "check_permissions"
  /\ last.customer_id = "CUST003"
  /\ last.tier = "premium"
  /\ last.query_type = "GENERAL_BANKING"
  /\ result = Some(TRUE)

\* C15: an authenticate call for a customer_id the customers table does not
\* hold is answered "Customer not found" whatever the credential, and leaves
\* the customers table, the session registry and the ledger as they were.
C15_UnknownCustomerChangesNothing ==
  [][(/\ last'.op = "authenticate"
      /\ last'.customer_id \notin DOMAIN customers)
     => /\ ~result'.is_authenticated
        /\ result'.error_message = Some("Customer not found")
        /\ result'.customer_profile = None
        /\ result'.session_token = None
        /\ customers' = customers
        /\ session_tokens' = session_tokens
        /\ conversation_history' = conversation_history]_vars

\* CUST999 presents the credential of the seeded customers while the
\* registry holds a session and the ledger an entry.
C15_Witness ==
  /\ last.op = "authenticate"
  /\ last.customer_id = "CUST999"
  /\ last.auth_token = "password123"
  /\ last.customer_data = None
  /\ result.error_message = Some("Customer not found")
  /\ DOMAIN session_tokens # {}
  /\ conversation_history # << >>

\* C16: logout returns true exactly when the registry held the token, and
\* then removes that entry and no other; for a token the registry does not
\* hold (never issued, or already logged out) it returns false and leaves
\* the registry as it was, so a second logout of the same token returns
\* false and changes nothing.
C16_LogoutRemovesOnce ==
  [][last'.op = "logout"
     => LET k == last'.session_token
        IN /\ result' = Some(k \in DOMAIN session_tokens)
           /\ DOMAIN session_tokens' = DOMAIN session_tokens \ {k}
           /\ \A j \in DOMAIN session_tokens' : session_tokens'[j] = session_tokens[j]
           /\ (k \notin DOMAIN session_tokens => session_tokens' = session_tokens)
           /\ logout(session_tokens', k).res = FALSE
           /\ logout(session_tokens', k).st = session_tokens'
           /\ customers' = customers]_vars

\* The second logout of a token that a login returned.
C16_Witness ==
  /\ last.op = "logout"
  /\ last.session_token \in DOMAIN issued
  /\ last.session_token \in revoked
  /\ last.session_token \notin DOMAIN session_tokens
  /\ result = Some(FALSE)

\* C17 as claimed: every result of process_customer_query has the fields
\* response, intent, supported, timestamp and query, carries the customer_id
\* when the caller gave one, and carries an error when the request was
\* rejected or denied.
C17_Claimed ==
  AfterQuery
  => /\ {"response", "intent", "supported", "timestamp", "query"} \subseteq DOMAIN result
     /\ last.customer_id # None
        => ("customer_id" \in DOMAIN result /\ result.customer_id = last.customer_id)
     /\ ~Called("append") => "error" \in DOMAIN result

\* The last call appended its result to the ledger.
Recorded ==
  /\ conversation_history # << >>
  /\ conversation_history[Len(conversation_history)] = result

\* C18: when the language model call of the classifier fails, the request
\* is classified OUT_OF_SCOPE and answered with the apology text; when the
\* crew of the query handler fails, the request is answered with the apology
\* text; in both cases process_customer_query returns a result and appends
\* it to the ledger.
C18_FailuresAreAbsorbed ==
  AfterQuery
  => /\ (Called("classify_intent") /\ last.llm_response = None)
        => /\ result.intent = "OUT_OF_SCOPE"
           /\ ~result.supported
           /\ result.response = APOLOGY_MESSAGE
           /\ "error" \notin DOMAIN result
           /\ Recorded
     /\ (Called("handle_query") /\ last.crew_result = None)
        => /\ result.response = APOLOGY_MESSAGE
           /\ result.supported
           /\ "error" \notin DOMAIN result
           /\ Recorded

\* CUST003 asks for the balance, which the regular tier may, and the crew
\* fails.
C18_Witness ==
  /\ AfterQuery
  /\ last.customer_id = Some("CUST003")
  /\ last.auth_token = Some("password123")
  /\ last.llm_response = Some("ACCOUNT_BALANCE")
  /\ last.crew_result = None
  /\ Called("handle_query")
  /\ result.response = APOLOGY_MESSAGE
  /\ Recorded

\* The ledger before a step is an initial part of the ledger after it.
LedgerExtends ==
  /\ Len(conversation_history) <= Len(conversation_history')
  /\ SubSeq(conversation_history', 1, Len(conversation_history)) = conversation_history

C20_Claimed ==
  [][(/\ last'.op = "authenticate"
      /\ last'.customer_data # None
      /\ result'.error_message = Some("Invalid authentication credentials"))
     => LET before == customers[last'.customer_id]
            after == customers'[last'.customer_id]
        IN /\ after.failed_attempts = before.failed_attempts + 1
           /\ after.failed_attempts >= 3 => after.locked_until # None
           /\ (before.locked_until # None /\ now < before.locked_until[1])
              => after.locked_until = before.locked_until]_vars
\* The place of each collaborator in the order of process_customer_query:
\* identification, intent resolution, support check, permission check,
\* fulfillment, recording.
StageRank(name) ==
  CASE name \in {"verify_session_token", "authenticate_customer"} -> 0
    [] name = "classify_intent" -> 1
    [] name = "is_supported_intent" -> 2
    [] name = "check_permissions" -> 3
    [] name = "handle_query" -> 4
    [] name = "append" -> 5

\* C21: the collaborators of one process_customer_query call are called in
\* the order identification, intent resolution, support check, permission
\* check, fulfillment, recording, each at most once; the permission check is
\* made exactly when the call was authenticated and the classified intent is
\* a supported one; and when the classified intent is not a supported one,
\* the call is not denied for permissions and handle_query is not called,
\* whatever the customer's tier.
C21_StagesInOrder ==
  AfterQuery
  => /\ \A i, j \in 1..Len(calls) : i < j => StageRank(calls[i]) < StageRank(calls[j])
     /\ Called("check_permissions")
          <=> /\ BySession \/ CredentialAccepted
              /\ result.intent \in SUPPORTED_INTENTS
     /\ result.intent \notin SUPPORTED_INTENTS
          => /\ ~Called("check_permissions")
             /\ ~Called("handle_query")
             /\ ("error" \in DOMAIN result => result.error # "Insufficient permissions")

\* CUST003, of the regular tier, which has no LOAN_INQUIRY permission, is
\* authenticated and asks about a loan: the request is answered with the
\* apology and recorded, with no permission check and no fulfillment.
C21_Witness ==
  /\ CredentialAccepted
  /\ last.customer_id = Some("CUST003")
  /\ last.llm_response = Some("LOAN_INQUIRY")
  /\ "LOAN_INQUIRY" \notin permissions[RowRead.tier]
  /\ calls = <<"authenticate_customer", "classify_intent", "is_supported_intent", "append">>
  /\ result.response = APOLOGY_MESSAGE
  /\ Recorded

\* C22 as claimed: whenever handle_query is called with a customer_id (the
\* one the ledger entry stores), the call was authenticated as that
\* customer: by a session token the registry maps to that customer_id, or by
\* a credential the verifier accepted for it.
C22_Claimed ==
  (/\ AfterQuery
   /\ Called("handle_query")
   /\ result.customer_id # None)
  => /\ result.customer_id = last.customer_id
     /\ \/ BySession /\ session_tokens[last.session_token[1]] = result.customer_id[1]
        \/ CredentialAccepted

\* One step of the verifier, as C23 reads the registry: after it every token
\* of the registry maps to a customer of the directory, the one the token
\* was generated for; a token enters the registry only in a successful
\* authenticate, which returns it, for the customer authenticated; a token
\* leaves the registry only in a logout of that token that answers True; and
\* a token that stays keeps its customer.
RegistryStep ==
  /\ \A k \in DOMAIN session_tokens' :
        /\ session_tokens'[k] \in DOMAIN customers'
        /\ session_tokens'[k] = k.customer_id
  /\ \A k \in DOMAIN session_tokens' \ DOMAIN session_tokens :
        /\ last'.op = "authenticate"
        /\ result'.is_authenticated
        /\ result'.session_token = Some(k)
        /\ session_tokens'[k] = last'.customer_id
  /\ \A k \in DOMAIN session_tokens \ DOMAIN session_tokens' :
        /\ last'.op = "logout"
        /\ last'.session_token = k
        /\ result' = Some(TRUE)
  /\ \A k \in DOMAIN session_tokens \cap DOMAIN session_tokens' :
        session_tokens'[k] = session_tokens[k]

\* C23: every token of the registry maps to one customer id, which is in the
\* directory; registry entries are added only by a successful authenticate
\* and removed only by logout.
C23_RegistryWellFormed == [][RegistryStep]_vars

\* A customer has logged in, the registry holds their token, and an earlier
\* login's token has been removed by logout.
C23_Witness ==
  /\ \E k \in DOMAIN session_tokens :
        /\ session_tokens[k] \in DOMAIN customers
        /\ k \in DOMAIN issued
  /\ revoked # {}

\* The terminal outcomes of a process_customer_query call, read off what it
\* returned: rejected at identification, denied for permissions, recorded in
\* the ledger, or the internal-error result of the except branch.
Outcomes ==
  {o \in {"AuthRejected", "PermissionDenied", "Recorded", "InternalError"} :
     \/ o = "AuthRejected"
        /\ result.intent \in {"AUTHENTICATION_REQUIRED", "AUTHENTICATION_FAILED"}
     \/ o = "PermissionDenied"
        /\ "error" \in DOMAIN result /\ result.error = "Insufficient permissions"
     \/ o = "Recorded"
        /\ Called("append") /\ Recorded
     \/ o = "InternalError"
        /\ result.intent = "ERROR"}

\* C24: every process_customer_query request in progress, each call it
\* makes returning or failing, eventually returns, and what it returns is
\* exactly one of the terminal outcomes: rejected at identification, denied
\* for permissions, recorded, or internal error.
C24_RequestTerminates ==
  /\ [](AfterQuery => Cardinality(Outcomes) = 1)
  /\ (request # None) ~> (request = None /\ AfterQuery /\ Cardinality(Outcomes) = 1)

\* A request of CUST003 whose crew failed has gone through all its calls,
\* has returned, and is recorded.
C24_Witness ==
  /\ request = None
  /\ AfterQuery
  /\ last.customer_id = Some("CUST003")
  /\ last.crew_result = None
  /\ calls = <<"authenticate_customer", "classify_intent", "is_supported_intent",
               "check_permissions", "handle_query", "append">>
  /\ Outcomes = {"Recorded"}

\* C25: a lockout running out does not reset the counter.  A customer whose
\* lockout expiry is set and has passed still has a counter of at least 3;
\* and a wrong credential presented then, the customer being active, is
\* answered "Invalid authentication credentials", adds 1 to the counter and
\* sets the lockout expiry to the time of that attempt plus 15 minutes.
C25_ExpiredLockoutRelocksAtOnce ==
  /\ \A c \in DOMAIN customers :
       (customers[c].locked_until # None /\ now >= customers[c].locked_until[1])
       => customers[c].failed_attempts >= 3
  /\ (/\ AfterAuthenticate
      /\ RowRead.locked_until # None
      /\ now >= RowRead.locked_until[1]
      /\ RowRead.account_status = "active"
      /\ last.auth_token # RowRead.auth_token)
     => /\ ~result.is_authenticated
        /\ result.error_message = Some("Invalid authentication credentials")
        /\ RowLeft.failed_attempts = RowRead.failed_attempts + 1
        /\ RowLeft.failed_attempts >= 3
        /\ RowLeft.locked_until = Some(now + 15 * 60)

\* Three wrong attempts at time 0, the 15 minutes pass, and a fourth wrong
\* attempt locks the account again for 15 minutes from then.
C25_Witness ==
  /\ AfterAuthenticate
  /\ last.auth_token # RowRead.auth_token
  /\ RowRead.account_status = "active"
  /\ RowRead.failed_attempts = 3
  /\ RowRead.locked_until = Some(15 * 60)
  /\ now = 15 * 60
  /\ RowLeft.failed_attempts = 4
  /\ RowLeft.locked_until = Some(30 * 60)

\* C26 as claimed: a process_customer_query call is processed as
\* authenticated, on a session token or on a credential, only if the account
\* it is authenticated as is active and not in a lock window at the time of
\* the call; in particular a session token issued earlier is no longer
\* accepted once the account has been suspended.
C26_Claimed ==
  (/\ BySession \/ ByCredential
   /\ Called("classify_intent"))
  => LET customer_id == IF BySession THEN session_tokens[last.session_token[1]]
                        ELSE last.customer_id[1]
     IN /\ customers[customer_id].account_status = "active"
        /\ ~IsLocked(customers[customer_id], now)

\* C27 as claimed: every successful authenticate returns a token that no
\* earlier authenticate has returned, for the same customer in the same
\* second too, and adds exactly one entry to the registry.
C27_Claimed ==
  [][(/\ last'.op = "authenticate"
      /\ result'.is_authenticated)
     => /\ result'.session_token[1] \notin DOMAIN issued
        /\ Cardinality(DOMAIN session_tokens')
             = Cardinality(DOMAIN session_tokens) + 1]_vars

\* The counter and the lockout expiry of a row agree: the counter is not
\* negative, and the expiry is set exactly when the counter is 3 or more.
CounterAgreesWithLock(row) ==
  /\ row.failed_attempts >= 0
  /\ row.locked_until # None => row.failed_attempts >= 3
  /\ row.failed_attempts >= 3 => row.locked_until # None

\* C28: after any sequence of authenticate calls, with no profile update,
\* every customer's counter is non-negative; a set lockout expiry means the
\* counter is at least 3; and a counter of at least 3 means the lockout
\* expiry is set, in the future or in the past.  In both verifiers.
C28_CounterAgreesWithLock ==
  \A c \in DOMAIN customers :
    /\ CounterAgreesWithLock(customers[c])
    /\ CounterAgreesWithLock(in_memory.customer_database[c])

\* A customer whose counter has reached 3 and whose lockout has run out.
C28_Witness ==
  \E c \in DOMAIN customers :
    /\ customers[c].failed_attempts >= 3
    /\ customers[c].locked_until # None
    /\ now >= customers[c].locked_until[1]
    /\ in_memory.customer_database[c].failed_attempts >= 3
    /\ in_memory.customer_database[c].locked_until # None

\* C30: the in-memory verifier and the PostgreSQL verifier, started from the
\* same customer records with the same stored credential and driven by the
\* same authenticate, verify and logout calls at the same times, one call
\* after the other, return the same outcome for every call (the flag, the
\* profile, the error text, the token; the profile of a verify; the answer
\* of a logout) and keep, for every customer, the same counter and the same
\* locked status.
C30_VerifiersAgree ==
  /\ last.op \in {"authenticate", "verify", "logout"} => in_memory.result = result
  /\ DOMAIN in_memory.customer_database = DOMAIN customers
  /\ \A c \in DOMAIN customers :
       /\ in_memory.customer_database[c].failed_attempts = customers[c].failed_attempts
       /\ (/\ in_memory.customer_database[c].locked_until # None
           /\ now < in_memory.customer_database[c].locked_until[1])
          <=> IsLocked(customers[c], now)

\* A fourth wrong credential after a lockout has run out: both verifiers
\* reject it as invalid, count 4 and lock again.
C30_Witness ==
  /\ AfterAuthenticate
  /\ last.auth_token # RowRead.auth_token
  /\ RowRead.failed_attempts = 3
  /\ now >= RowRead.locked_until[1]
  /\ result.error_message = Some("Invalid authentication credentials")
  /\ in_memory.result = result
  /\ in_memory.customer_database[last.customer_id].failed_attempts = 4
  /\ RowLeft.failed_attempts = 4
  /\ IsLocked(RowLeft, now)

\* One step as C29 reads it: the stored customer_id of every object is its
\* directory key; a call other than authenticate leaves every customer's
\* counter and lockout expiry as they were, in both verifiers; and an
\* update for a customer_id that is not in the directory answers False, in
\* both verifiers.
ProfileUpdateFrame ==
  /\ \A c \in DOMAIN in_memory'.customer_database :
        in_memory'.customer_database[c].customer_id = c
  /\ last'.op # "authenticate"
     => \A c \in DOMAIN customers :
           /\ customers'[c].failed_attempts = customers[c].failed_attempts
           /\ customers'[c].locked_until = customers[c].locked_until
           /\ in_memory'.customer_database[c].failed_attempts
                = in_memory.customer_database[c].failed_attempts
           /\ in_memory'.customer_database[c].locked_until
                = in_memory.customer_database[c].locked_until
  /\ (last'.op = "update" /\ last'.customer_id \notin DOMAIN customers)
     => /\ result' = Some(FALSE)
        /\ in_memory'.result = Some(FALSE)

\* C29 as claimed: update_customer_profile, in the in-memory and in the
\* PostgreSQL verifier, never changes the customer id, the counter or the
\* lockout expiry, whatever fields are supplied; the directory key is always
\* the stored customer id; the lockout state is changed by authenticate
\* only; and an update for an unknown customer reports failure.
C29_Claimed == [][ProfileUpdateFrame]_vars

====
